---- MODULE Spec2Model ----
(***************************************************************************)
(* The JSON flattener of the lineage export scripts                        *)
(* (workflows/zebralistobjectlineage.py, flatten_json).                    *)
(*                                                                         *)
(* Python values are modelled as tagged records:                           *)
(*   scalar  [kind |-> "scalar", val |-> token]                            *)
(*   list    [kind |-> "list",   val |-> <<element, ...>>]                 *)
(*   dict    [kind |-> "dict",   val |-> << <<key, value>>, ... >>]        *)
(* A dict keeps its entries in insertion order and its keys are distinct.  *)
(* Keys, prefixes and separators are strings.                              *)
(*                                                                         *)
(* The workflow scripts around it (export, connection handling, report and *)
(* project updates) are modelled further down, each as a specification of  *)
(* its own over the same variables:                                        *)
(*   pc      the position of the running function                          *)
(*   local   the local variables of the running function, under the names  *)
(*           they have in the source                                       *)
(*   trace   the calls made to the outside (REST calls, SDK calls), in     *)
(*           the order they were made                                      *)
(*   result  the value returned                                            *)
(***************************************************************************)
EXTENDS Integers, Sequences, FiniteSets, TLC

VARIABLES data, parent_key, sep, pc, result, local, trace

vars == <<data, parent_key, sep, pc, result, local, trace>>

(***************************************************************************)
(* Bounds of the input domain.                                             *)
(***************************************************************************)
MaxNodes == 4
MaxWidth == 2

Scalars == {"1", "2", "null"}
Keys == {"a", "b", "a_b", ""}
Prefixes == {"", "p"}
Separators == {"_", "."}

Scalar(s) == [kind |-> "scalar", val |-> s]
List(elems) == [kind |-> "list", val |-> elems]
Dict(entries) == [kind |-> "dict", val |-> entries]

(***************************************************************************)
(* Python built-ins used by flatten_json.                                  *)
(***************************************************************************)
\* isinstance(x, dict)
IsDict(x) == x.kind = "dict"

\* Faults of the list test: an empty list taken for a scalar (a truthiness
\* test), everything but a dict taken for a list (a bare else).
IsList_nonempty(x) == x.kind = "list" /\ x.val # <<>>
IsList_not_dict(x) == x.kind # "dict"

\* isinstance(x, list)
IsList(x) == x.kind = "list"

\* An evaluation either returns a value or raises.
Ok(v) == [raised |-> FALSE, value |-> v]
Raise == [raised |-> TRUE, value |-> <<>>]

\* enumerate(x): the elements of a list in order; a number, a boolean or
\* None is not iterable (TypeError).
enumerate(x) == IF x.kind = "list" THEN Ok(x.val) ELSE Raise

\* x.items(): the entries of a dict in insertion order; any other value has
\* no such attribute (AttributeError).
items_of(x) == IF x.kind = "dict" THEN Ok(x.val) ELSE Raise

Digit == <<"0", "1", "2", "3", "4", "5", "6", "7", "8", "9">>

\* str(i) for a non-negative integer i: its decimal digits.
RECURSIVE decimal(_)
decimal(i) ==
    IF i < 10 THEN Digit[i + 1]
    ELSE decimal(i \div 10) \o Digit[(i % 10) + 1]

\* Fault of the index: positions counted from one.
format_int_from_one(i) == decimal(i + 1)

\* f"{i}" for the index i that enumerate yields (counted from zero).
format_int(i) == decimal(i)

\* Position of key k in the entry sequence d, 0 when absent.
RECURSIVE index_of_key(_, _, _)
index_of_key(d, k, i) ==
    IF i > Len(d) THEN 0
    ELSE IF d[i][1] = k THEN i
    ELSE index_of_key(d, k, i + 1)

\* dict(items): entries are inserted in order; an entry whose key is already
\* present keeps the position of the first and takes the value of the last.
RECURSIVE dict_insert(_, _, _)
dict_insert(acc, items, i) ==
    IF i > Len(items) THEN acc
    ELSE LET at == index_of_key(acc, items[i][1], 1)
         IN dict_insert(IF at = 0 THEN Append(acc, items[i])
                        ELSE [acc EXCEPT ![at] = items[i]],
                        items, i + 1)

dict(items) == dict_insert(<<>>, items, 1)

\* items.extend(more) / items.append(pair) on evaluations that may have raised.
extend(acc, more) ==
    IF acc.raised \/ more.raised THEN Raise ELSE Ok(acc.value \o more.value)

(***************************************************************************)
(* flatten_json(data, parent_key='', sep='_')                              *)
(***************************************************************************)
RECURSIVE flatten_json(_, _, _)
RECURSIVE list_loop(_, _, _, _)
RECURSIVE dict_loop(_, _, _, _)

\* Faults of the key rule: the separator left out, the prefix and separator
\* put in front of the key also when the prefix is empty.
new_key_no_sep(pk, s, k) == IF pk # "" THEN pk \o k ELSE k
new_key_always_prefixed(pk, s, k) == pk \o s \o k

\* new_key = f"{parent_key}{sep}{k}" if parent_key else k
new_key(pk, s, k) == IF pk # "" THEN pk \o s \o k ELSE k

\* for i, item in enumerate(v): the items contributed by elements n.. of the
\* list elems under the key prefix.  The loop over a list value of a dict
\* and the loop over a top-level list have the same body.
list_loop(elems, prefix, s, n) ==
    IF n > Len(elems) THEN Ok(<<>>)
    ELSE LET item == elems[n]
             key == prefix \o s \o format_int(n - 1)
             here == IF IsDict(item)
                     THEN LET r == flatten_json(item, key, s)
                          IN IF r.raised THEN Raise ELSE items_of(Dict(r.value))
                     ELSE Ok(<< <<key, item>> >>)
         IN extend(here, list_loop(elems, prefix, s, n + 1))

\* for k, v in data.items(): the items contributed by entries n.. of a dict.
dict_loop(entries, pk, s, n) ==
    IF n > Len(entries) THEN Ok(<<>>)
    ELSE LET k == entries[n][1]
             v == entries[n][2]
             nk == new_key(pk, s, k)
             here == IF IsDict(v)
                     THEN LET r == flatten_json(v, nk, s)
                          IN IF r.raised THEN Raise ELSE items_of(Dict(r.value))
                     ELSE IF IsList(v)
                     THEN LET e == enumerate(v)
                          IN IF e.raised THEN Raise
                             ELSE list_loop(e.value, nk, s, 1)
                     ELSE Ok(<< <<nk, v>> >>)
         IN extend(here, dict_loop(entries, pk, s, n + 1))

\* Fault of the last branch: a scalar contributes no item.
collected_items_no_scalar(d, pk, s) ==
    IF IsDict(d)
    THEN LET e == items_of(d)
         IN IF e.raised THEN Raise ELSE dict_loop(e.value, pk, s, 1)
    ELSE IF IsList(d)
    THEN LET e == enumerate(d)
         IN IF e.raised THEN Raise ELSE list_loop(e.value, pk, s, 1)
    ELSE Ok(<<>>)

\* The list `items` when the function reaches its return statement.
collected_items(d, pk, s) ==
    IF IsDict(d)
    THEN LET e == items_of(d)
         IN IF e.raised THEN Raise ELSE dict_loop(e.value, pk, s, 1)
    ELSE IF IsList(d)
    THEN LET e == enumerate(d)
         IN IF e.raised THEN Raise ELSE list_loop(e.value, pk, s, 1)
    ELSE Ok(<< <<pk, d>> >>)

flatten_json(d, pk, s) ==
    LET items == collected_items(d, pk, s)
    IN IF items.raised THEN Raise ELSE Ok(dict(items.value))

(***************************************************************************)
(* The input domain: every JSON value of at most MaxNodes nodes whose      *)
(* containers hold at most MaxWidth children, and the documents of the     *)
(* export's examples.                                                      *)
(***************************************************************************)
RECURSIVE Forests(_, _)
RECURSIVE TreesOfSize(_)

\* Sequences of w values with n nodes in total.
Forests(n, w) ==
    IF w = 0 THEN (IF n = 0 THEN {<<>>} ELSE {})
    ELSE UNION {{<<t>> \o f : t \in TreesOfSize(m), f \in Forests(n - m, w - 1)} :
                m \in 1..(n - (w - 1))}

\* Sequences of w distinct keys.
RECURSIVE KeySeqs(_)
KeySeqs(w) ==
    IF w = 0 THEN {<<>>}
    ELSE {Append(ks, k) : ks \in KeySeqs(w - 1), k \in Keys} \
         {Append(ks, ks[i]) : ks \in KeySeqs(w - 1), i \in 1..(w - 1)}

Zip(ks, f) == [i \in 1..Len(f) |-> <<ks[i], f[i]>>]

Leaves == {Scalar(s) : s \in Scalars} \cup {List(<<>>), Dict(<<>>)}

\* Lists and dicts of n nodes with w children.
ListsOfSize(n, w) == {List(f) : f \in Forests(n - 1, w)}

DictsOfSize(n, w) ==
    {Dict(Zip(ks, f)) : ks \in KeySeqs(w), f \in Forests(n - 1, w)}

TreesOfSize(n) ==
    IF n = 1 THEN Leaves
    ELSE UNION {ListsOfSize(n, w) \cup DictsOfSize(n, w) : w \in 1..MaxWidth}

Examples ==
    { Dict(<< <<"a", List(<<Dict(<< <<"b", Scalar("1")>> >>),
                           Dict(<< <<"b", Scalar("2")>> >>)>>)>> >>),
      Dict(<< <<"a", List(<<Scalar("1"), Scalar("2")>>)>> >>),
      Dict(<< <<"a", Dict(<< <<"b", Scalar("2")>> >>)>> >>),
      Dict(<< <<"a", Scalar("1")>> >>),
      Dict(<< <<"a", List(<<Scalar("1")>>)>>, <<"a_0", Scalar("2")>> >>),
      Scalar("42") }

\* data is a value of the input domain.
IsInput(d) ==
    \/ d \in Leaves
    \/ \E n \in 2..MaxNodes, w \in 1..MaxWidth :
          d \in ListsOfSize(n, w) \/ d \in DictsOfSize(n, w)
    \/ d \in Examples

(***************************************************************************)
(* One call of flatten_json on an input of the domain.                     *)
(***************************************************************************)
Init ==
    /\ IsInput(data)
    /\ parent_key \in Prefixes
    /\ sep \in Separators
    /\ pc = "call"
    /\ result = Ok(<<>>)
    /\ local = <<>>
    /\ trace = <<>>

Call ==
    /\ pc = "call"
    /\ result' = flatten_json(data, parent_key, sep)
    /\ pc' = "return"
    /\ UNCHANGED <<data, parent_key, sep, local, trace>>

Next == Call

Spec == Init /\ [][Next]_vars

(***************************************************************************)
(* Vocabulary of the properties.                                           *)
(***************************************************************************)
Returned == pc = "return" /\ ~result.raised

\* A sequence of entries with distinct keys, read as a mapping.
AsMap(d) ==
    [k \in {d[i][1] : i \in DOMAIN d} |->
        d[CHOOSE i \in DOMAIN d : d[i][1] = k][2]]

DistinctKeys(d) == \A i, j \in DOMAIN d : d[i][1] = d[j][1] => i = j

IsScalar(x) == x.kind = "scalar"

RECURSIVE Concat(_)
Concat(seqs) == IF seqs = <<>> THEN <<>> ELSE Head(seqs) \o Concat(Tail(seqs))

RECURSIVE Sum(_)
Sum(ns) == IF ns = <<>> THEN 0 ELSE Head(ns) + Sum(Tail(ns))

\* Number of scalar leaves of a JSON value.
RECURSIVE NumLeaves(_)
NumLeaves(x) ==
    IF IsScalar(x) THEN 1
    ELSE IF IsList(x) THEN Sum([i \in DOMAIN x.val |-> NumLeaves(x.val[i])])
    ELSE Sum([i \in DOMAIN x.val |-> NumLeaves(x.val[i][2])])

\* The key the specification gives to entry k of an object under prefix p.
ObjectKey(p, s, k) == IF p = "" THEN k ELSE p \o s \o k

\* The key the specification gives to element i (0-based) of an array.
ArrayKey(p, s, i) == p \o s \o format_int(i)

\* The mappings of the elements of a list, each flattened under its own key.
ElementResults(x, p, s) ==
    [i \in DOMAIN x.val |->
        flatten_json(x.val[i], ArrayKey(p, s, i - 1), s).value]

\* The mappings of the entries of a dict, each flattened under its own key.
EntryResults(x, p, s) ==
    [i \in DOMAIN x.val |->
        flatten_json(x.val[i][2], ObjectKey(p, s, x.val[i][1]), s).value]

(***************************************************************************)
(* C1: for every JSON value the number of entries of flatten_json(v)       *)
(* equals the number of scalar leaves of v.                                *)
(***************************************************************************)
C1_EntryCountIsLeafCount ==
    pc = "return" => ~result.raised /\ Len(result.value) = NumLeaves(data)

(***************************************************************************)
(* C2: distinct leaves get distinct keys, so that no entry is lost when    *)
(* the collected items are merged into the returned mapping.               *)
(***************************************************************************)
C2_NoKeyCollision ==
    pc = "return" =>
        LET items == collected_items(data, parent_key, sep)
        IN ~items.raised /\ DistinctKeys(items.value)

(***************************************************************************)
(* C3: every element e at index i of an array under prefix p is flattened  *)
(* recursively under p + sep + i, whether e is an object, an array or a    *)
(* scalar.                                                                 *)
(***************************************************************************)
C3_ArrayElementsFlattenedUniformly ==
    pc = "return" /\ IsList(data) =>
        result = Ok(dict(Concat(ElementResults(data, parent_key, sep))))

(***************************************************************************)
(* C4: every value of the returned mapping is a scalar.                    *)
(***************************************************************************)
C4_ValuesAreScalars ==
    pc = "return" =>
        /\ ~result.raised
        /\ \A i \in DOMAIN result.value : IsScalar(result.value[i][2])

(***************************************************************************)
(* C5: for an object under prefix p every key k with value v is flattened  *)
(* under p + sep + k when p is non-empty and under k when p is empty, with *)
(* the same separator at every level, and the result is the merge of the   *)
(* mappings of all keys (in key order, a later entry replacing an earlier  *)
(* one of the same output key).                                            *)
(***************************************************************************)
C5_ObjectCase ==
    pc = "return" /\ IsDict(data) =>
        result = Ok(dict(Concat(EntryResults(data, parent_key, sep))))

C5_Witness ==
    /\ Returned /\ IsDict(data) /\ parent_key = "p"
    /\ Len(data.val) = 2
    /\ IsList(data.val[1][2]) /\ data.val[1][2].val # <<>>
    /\ Len(result.value) = 2

(***************************************************************************)
(* C6: for a scalar s (null included) and any prefix p, flatten_json(s, p) *)
(* is the single-entry mapping {p: s}; flatten_json(42) is {"": 42}.       *)
(***************************************************************************)
C6_ScalarCase ==
    pc = "return" /\ IsScalar(data) =>
        result = Ok(<< <<parent_key, data>> >>)

C6_Witness ==
    /\ Returned /\ data = Scalar("42") /\ parent_key = ""
    /\ result.value = << <<"", Scalar("42")>> >>

(***************************************************************************)
(* C7: flatten_json of the empty object and of the empty array return the  *)
(* empty mapping.                                                          *)
(***************************************************************************)
C7_EmptyContainers ==
    pc = "return" /\ data \in {Dict(<<>>), List(<<>>)} => result = Ok(<<>>)

C7_Witness == Returned /\ data = List(<<>>) /\ result.value = <<>>

(***************************************************************************)
(* C8: with the default prefix '' and separator '_', an object under key a *)
(* holding key b gives a_b, an array of scalars under key a gives a_0,     *)
(* a_1, ..., an array of objects under key a gives a_0_b, a_1_b, ..., each *)
(* mapped to its leaf value, and there are no other entries.               *)
(***************************************************************************)
IsFlatDict(x) == IsDict(x) /\ \A i \in DOMAIN x.val : IsScalar(x.val[i][2])

C8_DefaultJoin ==
    pc = "return" /\ parent_key = "" /\ sep = "_" /\ IsDict(data)
        /\ Len(data.val) = 1 /\ data.val[1][1] # "" =>
        LET a == data.val[1][1]
            v == data.val[1][2]
        IN /\ IsFlatDict(v) =>
                result = Ok([i \in DOMAIN v.val |->
                                <<a \o "_" \o v.val[i][1], v.val[i][2]>>])
           /\ IsList(v) /\ (\A i \in DOMAIN v.val : IsScalar(v.val[i])) =>
                result = Ok([i \in DOMAIN v.val |->
                                <<a \o "_" \o decimal(i - 1), v.val[i]>>])
           /\ IsList(v) /\ (\A i \in DOMAIN v.val :
                                IsFlatDict(v.val[i]) /\ Len(v.val[i].val) = 1) =>
                result = Ok([i \in DOMAIN v.val |->
                                <<a \o "_" \o decimal(i - 1) \o "_" \o v.val[i].val[1][1],
                                  v.val[i].val[1][2]>>])

C8_Witness ==
    /\ Returned /\ parent_key = "" /\ sep = "_"
    /\ data = Dict(<< <<"a", List(<<Dict(<< <<"b", Scalar("1")>> >>),
                                   Dict(<< <<"b", Scalar("2")>> >>)>>)>> >>)
    /\ result.value = << <<"a_0_b", Scalar("1")>>, <<"a_1_b", Scalar("2")>> >>

(***************************************************************************)
(* C9: for a mapping whose values are all scalars, flatten_json with the   *)
(* empty prefix returns a mapping with exactly its keys and values.        *)
(***************************************************************************)
C9_FlatInputUnchanged ==
    pc = "return" /\ parent_key = "" /\ IsFlatDict(data) =>
        result = Ok(data.val)

C9_Witness ==
    /\ Returned /\ parent_key = "" /\ IsFlatDict(data) /\ Len(data.val) = 2
    /\ data.val[1][1] = "a_b" /\ result.value = data.val

(***************************************************************************)
(* C10: for every JSON value, prefix and separator the call returns a      *)
(* mapping (a set of entries with pairwise distinct keys); it never        *)
(* raises.                                                                 *)
(***************************************************************************)
C10_Total ==
    pc = "return" => ~result.raised /\ DistinctKeys(result.value)

C10_Witness ==
    /\ Returned /\ parent_key = "p" /\ sep = "."
    /\ data = Dict(<< <<"", List(<<Scalar("null"), Dict(<<>>)>>)>> >>)
    /\ result.value = << <<"p..0", Scalar("null")>> >>

(***************************************************************************)
(* The export of zebralistobjectlineage.py: process_objects_and_export     *)
(* lists the objects of each type, fetches the detail JSON of every object *)
(* and turns it into one row.                                              *)
(***************************************************************************)
MaxObjects == 2

object_types == <<"ATTRIBUTES", "METRICS", "FACTS">>

None == Scalar("null")

\* The j-th object list_objects returns; every second one carries no name
\* attribute.
Obj(j) == [id |-> "id" \o decimal(j), has_name |-> j % 2 = 1,
           name |-> "name" \o decimal(j)]

\* getattr(obj, 'name', 'Unknown')
getattr_name(obj) == IF obj.has_name THEN obj.name ELSE "Unknown"

\* The detail documents a server answers with: one whose flattening yields
\* the keys object_id and object_name, the empty object, and an error body.
DetailDocument ==
    Dict(<< <<"object", Dict(<< <<"id", Scalar("Z")>> >>)>>,
            <<"object_name", Scalar("Z")>>,
            <<"a", Scalar("1")>> >>)

ErrorDocument == Dict(<< <<"code", Scalar("ERR")>> >>)

\* What conn.get does: answers with a status and a body, or raises.
Responses ==
    { [kind |-> "response", status_code |-> 200, body |-> DetailDocument],
      [kind |-> "response", status_code |-> 200, body |-> Dict(<<>>)],
      [kind |-> "response", status_code |-> 500, body |-> ErrorDocument],
      [kind |-> "raise", status_code |-> 0, body |-> None] }

\* Truth value of a Python object: None, zero, the empty string and empty
\* containers are false.
truthy(x) ==
    IF x.kind = "scalar" THEN x.val \notin {"null", "0", "", "false"}
    ELSE x.val # <<>>

\* Fault of the status test: the body is returned whatever the status.
get_object_details_any_status(response, object_type) ==
    IF object_type \notin {"ATTRIBUTES", "METRICS", "FACTS"} THEN None
    ELSE IF response.kind = "raise" THEN None
    ELSE response.body

\* get_object_details(conn, object_id, object_type), given what conn.get
\* does.
get_object_details(response, object_type) ==
    IF object_type \notin {"ATTRIBUTES", "METRICS", "FACTS"} THEN None
    ELSE IF response.kind = "raise" THEN None
    ELSE IF response.status_code = 200 THEN response.body
    ELSE None

\* Fault of the assignment: an existing key keeps its value.
dict_setitem_keep(d, k, v) ==
    IF index_of_key(d, k, 1) = 0 THEN Append(d, <<k, v>>) ELSE d

\* d[k] = v
dict_setitem(d, k, v) ==
    LET at == index_of_key(d, k, 1)
    IN IF at = 0 THEN Append(d, <<k, v>>) ELSE [d EXCEPT ![at] = <<k, v>>]

\* d[k] for a key that is present.
dict_getitem(d, k) == d[index_of_key(d, k, 1)][2]

\* The row of an object whose details were fetched (lines 159-162).
flattened_row(obj_details, obj) ==
    LET flattened == flatten_json(obj_details, "", "_")
    IN IF flattened.raised THEN Raise
       ELSE Ok(dict_setitem(
                   dict_setitem(flattened.value, "object_id", Scalar(obj.id)),
                   "object_name", Scalar(getattr_name(obj))))

\* The row of an object whose details could not be fetched (lines 166-170).
placeholder_row(obj) ==
    << <<"object_id", Scalar(obj.id)>>,
       <<"object_name", Scalar(getattr_name(obj))>>,
       <<"api_error", Scalar("Failed to get details")>> >>

Parked ==
    /\ data = None
    /\ parent_key = ""
    /\ sep = "_"

ExportInit ==
    /\ Parked
    /\ pc = "list_objects"
    /\ result = None
    /\ local = [type_idx |-> 1, objects |-> <<>>, i |-> 1,
                response |-> [kind |-> "raise", status_code |-> 0, body |-> None],
                flattened_data |-> <<>>, all_data |-> <<>>]
    /\ trace = <<>>

\* all_data[type_name] = rows, then the next type or the export.
NextType(rows) ==
    /\ local' = [local EXCEPT !.all_data = Append(@, <<object_types[local.type_idx], rows>>),
                              !.type_idx = @ + 1,
                              !.objects = <<>>, !.i = 1, !.flattened_data = <<>>]
    /\ pc' = IF local.type_idx = Len(object_types) THEN "export" ELSE "list_objects"

\* list_objects(...) raises: the handler of line 179 stores an empty list.
ListObjectsRaises ==
    /\ pc = "list_objects"
    /\ trace' = Append(trace, <<"list_objects", object_types[local.type_idx]>>)
    /\ NextType(<<>>)
    /\ UNCHANGED <<data, parent_key, sep, result>>

\* list_objects(...) returns n objects (lines 138-149, 175-177).
ListObjects ==
    /\ pc = "list_objects"
    /\ \E n \in 0..MaxObjects :
         /\ trace' = Append(trace, <<"list_objects", object_types[local.type_idx]>>)
         /\ IF n = 0
            THEN NextType(<<>>)
            ELSE /\ local' = [local EXCEPT !.objects = [j \in 1..n |-> Obj(j)],
                                           !.i = 1, !.flattened_data = <<>>]
                 /\ pc' = "get_object_details"
    /\ UNCHANGED <<data, parent_key, sep, result>>

\* conn.get of get_object_details for object i (line 81).
Fetch ==
    /\ pc = "get_object_details"
    /\ \E response \in Responses :
         local' = [local EXCEPT !.response = response]
    /\ trace' = Append(trace, <<"get", local.objects[local.i].id>>)
    /\ pc' = "row"
    /\ UNCHANGED <<data, parent_key, sep, result>>

\* The rest of the loop body for object i (lines 155-170) and the end of
\* the loop (lines 172-173).
Row ==
    /\ pc = "row"
    /\ LET obj == local.objects[local.i]
           obj_details == get_object_details(local.response,
                                             object_types[local.type_idx])
           row == IF truthy(obj_details) THEN flattened_row(obj_details, obj)
                  ELSE Ok(placeholder_row(obj))
           rows == Append(local.flattened_data, row.value)
       IN /\ trace' = IF truthy(obj_details)
                      THEN Append(trace, <<"flatten_json", obj.id>>)
                      ELSE trace
          /\ IF row.raised
             THEN NextType(<<>>)
             ELSE IF local.i = Len(local.objects)
             THEN NextType(rows)
             ELSE /\ local' = [local EXCEPT !.flattened_data = rows, !.i = @ + 1]
                  /\ pc' = "get_object_details"
    /\ UNCHANGED <<data, parent_key, sep, result>>

\* if any(all_data.values()): export_to_excel(...) (lines 184-187).
Export ==
    /\ pc = "export"
    /\ trace' = IF \E t \in DOMAIN local.all_data : local.all_data[t][2] # <<>>
                THEN Append(trace, <<"export_to_excel">>)
                ELSE trace
    /\ pc' = "done"
    /\ UNCHANGED <<data, parent_key, sep, result, local>>

ExportNext == ListObjectsRaises \/ ListObjects \/ Fetch \/ Row \/ Export

SpecExport == ExportInit /\ [][ExportNext]_vars

\* The rows written so far for the type being processed, and the rows of the
\* types already finished.
RowLists ==
    {local.flattened_data} \cup {local.all_data[t][2] : t \in DOMAIN local.all_data}

FetchFailed ==
    local.response.kind = "raise" \/ local.response.status_code # 200

C13_FailedFetchGivesPlaceholder ==
    [][pc = "row" =>
        LET obj == local.objects[local.i]
            last == local.i = Len(local.objects)
            rows == IF last THEN local'.all_data[Len(local'.all_data)][2]
                    ELSE local'.flattened_data
        IN /\ FetchFailed =>
                /\ Len(rows) = local.i
                /\ rows[local.i] = placeholder_row(obj)
                /\ trace' = trace
                /\ ~last => pc' = "get_object_details" /\ local'.i = local.i + 1
           /\ trace' # trace => ~FetchFailed]_vars

C13_Witness ==
    /\ pc = "get_object_details" /\ local.type_idx = 1 /\ local.i = 2
    /\ local.response.status_code = 500
    /\ local.flattened_data = <<placeholder_row(Obj(1))>>
    /\ \A e \in DOMAIN trace : trace[e][1] # "flatten_json"

(***************************************************************************)
(* zebralistobjects.py, main (lines 422-488): open a connection, ask for   *)
(* the project id, list the project's objects, count them by type and      *)
(* status, export, close.  The trace records the calls made on the         *)
(* connection.                                                             *)
(***************************************************************************)
ObjectTypeNames == {"REPORT", "FOLDER"}
ObjectStatuses == {"accessible", "orphaned"}

\* str.strip() on the answers the user can type.
strip(s) == IF s = " " THEN "" ELSE s

\* d.get(k, 0) on a dict of counters (lines 456-457).
dict_get(d, k, default) ==
    IF index_of_key(d, k, 1) = 0 THEN default ELSE dict_getitem(d, k)

\* close_zebra_connection (lines 57-65): conn.close() is called when there
\* is a connection; its exception is caught.
zebralistobjects_close_zebra_connection(conn, tr) ==
    IF conn THEN Append(tr, <<"conn.close">>) ELSE tr

ListObjectsMainInit ==
    /\ Parked
    /\ pc = "get_zebra_connection"
    /\ result = None
    /\ local = [conn |-> FALSE, project_id |-> "", objects |-> <<>>, k |-> 1,
                type_counts |-> <<>>,
                status_counts |-> [accessible |-> 0, orphaned |-> 0],
                excel_file |-> FALSE, interrupted |-> FALSE]
    /\ trace = <<>>

\* Lines 427-430: no connection, main returns.
zebralistobjects_get_zebra_connection ==
    /\ pc = "get_zebra_connection"
    /\ \E established \in BOOLEAN :
        /\ local' = [local EXCEPT !.conn = established]
        /\ pc' = IF established THEN "input" ELSE "done"
    /\ UNCHANGED <<data, parent_key, sep, result, trace>>

\* Lines 433-443: the three returns of the input phase.
zebralistobjects_input ==
    /\ pc = "input"
    /\ \E answer \in {"P1", " ", "", "KeyboardInterrupt", "Exception"} :
        IF answer \in {"KeyboardInterrupt", "Exception"} \/ strip(answer) = ""
        THEN pc' = "done" /\ UNCHANGED local
        ELSE pc' = "list_all_objects"
             /\ local' = [local EXCEPT !.project_id = strip(answer)]
    /\ UNCHANGED <<data, parent_key, sep, result, trace>>

\* Line 447; list_all_objects catches Exception itself, a KeyboardInterrupt
\* passes through main's except Exception to the finally clause.
zebralistobjects_list_all_objects ==
    /\ pc = "list_all_objects"
    /\ trace' = Append(trace, <<"list_all_objects", local.project_id>>)
    /\ \/ /\ local' = [local EXCEPT !.interrupted = TRUE]
          /\ pc' = "finally"
       \/ \E n \in 0..MaxObjects : \E objects \in [1..n -> [type : ObjectTypeNames, status : ObjectStatuses]] :
            /\ local' = [local EXCEPT !.objects = objects]
            /\ pc' = IF objects # <<>> THEN "count" ELSE "finally"
    /\ UNCHANGED <<data, parent_key, sep, result>>

\* Lines 453-458, one object per step.
zebralistobjects_count ==
    /\ pc = "count"
    /\ LET obj == local.objects[local.k]
           tc == dict_setitem(local.type_counts, obj.type,
                              dict_get(local.type_counts, obj.type, 0) + 1)
           sc == [local.status_counts EXCEPT ![obj.status] = @ + 1]
       IN local' = [local EXCEPT !.type_counts = tc, !.status_counts = sc,
                                 !.k = local.k + 1]
    /\ pc' = IF local.k = Len(local.objects) THEN "export" ELSE "count"
    /\ UNCHANGED <<data, parent_key, sep, result, trace>>

\* Lines 471-475: export_objects_to_excel returns a file name or None.
zebralistobjects_export ==
    /\ pc = "export"
    /\ \E ok \in BOOLEAN : local' = [local EXCEPT !.excel_file = ok]
    /\ pc' = "finally"
    /\ UNCHANGED <<data, parent_key, sep, result, trace>>

\* Lines 482-484.
zebralistobjects_finally ==
    /\ pc = "finally"
    /\ trace' = zebralistobjects_close_zebra_connection(local.conn, trace)
    /\ result' = IF local.interrupted THEN Raise ELSE None
    /\ pc' = "done"
    /\ UNCHANGED <<data, parent_key, sep, local>>

ListObjectsMainNext ==
    \/ zebralistobjects_get_zebra_connection
    \/ zebralistobjects_input
    \/ zebralistobjects_list_all_objects
    \/ zebralistobjects_count
    \/ zebralistobjects_export
    \/ zebralistobjects_finally

SpecListObjectsMain == ListObjectsMainInit /\ [][ListObjectsMainNext]_vars

(***************************************************************************)
(* C14: every execution of main in which a connection was established      *)
(* invokes close on that connection before main ends, on every path.       *)
(***************************************************************************)
C14_MainClosesConnection ==
    (pc = "done" /\ local.conn) => \E e \in DOMAIN trace : trace[e] = <<"conn.close">>

(***************************************************************************)
(* ZebraCloseConnection.py, close_connection (lines 19-49).  conn is TRUE  *)
(* for a Connection object and FALSE for None; status and close are what   *)
(* conn.status() and conn.close() do.  The value is the returned boolean   *)
(* and the calls made on the connection, in order.                         *)
(***************************************************************************)
StatusOutcomes == {"active", "inactive", "raise"}
CloseOutcomes == {"ok", "raise"}

close_connection_unchecked(conn, status, close) ==
    IF ~conn THEN [value |-> FALSE, calls |-> <<>>]
    ELSE IF status = "raise" THEN [value |-> FALSE, calls |-> << <<"conn.status">> >>]
    ELSE [value |-> TRUE, calls |-> << <<"conn.status">>, <<"conn.close">> >>]

close_connection(conn, status, close) ==
    IF ~conn THEN [value |-> FALSE, calls |-> <<>>]
    ELSE IF status = "raise" THEN [value |-> FALSE, calls |-> << <<"conn.status">> >>]
    ELSE [value |-> close # "raise", calls |-> << <<"conn.status">>, <<"conn.close">> >>]

(***************************************************************************)
(* zebraffsqldschange.py: update_report_dbi (lines 87-155) and main (lines *)
(* 158-222).  An HTTP call is an event <<call, report id, outcome, body>>  *)
(* of the trace; body is the JSON sent (PUT) or received.                  *)
(***************************************************************************)
MaxReports == 2
FOLDER_ID == "F"
NEW_DBI_OBJECT_ID == "NEWDBI"
report_id(j) == "r" \o decimal(j)

\* response.ok, and the other two ways a call can end.
HttpOutcomes == {"ok", "not_ok", "raise"}
response_ok(response) == response.outcome = "ok"

\* The bodies of the create-instance answer.
InstanceBodies == {Dict(<< <<"id", Scalar("I1")>> >>), Dict(<< <<"id", Scalar("")>> >>), Dict(<<>>)}

\* The bodies of the definition answer: with the DBI path, without its last
\* key, without its first key.
dbi_path == <<"dataSource", "table", "dataSource", "objectId">>
RECURSIVE nest(_, _)
nest(path, leaf) ==
    IF path = <<>> THEN leaf
    ELSE Dict(<< <<Head(path), nest(Tail(path), leaf)>> >>)
DefinitionBodies ==
    { Dict(<< <<"name", Scalar("1")>> >> \o nest(dbi_path, Scalar("OLDDBI")).val),
      nest(SubSeq(dbi_path, 1, 3), Dict(<<>>)),
      Dict(<< <<"name", Scalar("1")>> >>) }
Responses_of(bodies) ==
    {[outcome |-> "ok", body |-> b] : b \in bodies}
        \cup {[outcome |-> o, body |-> None] : o \in {"not_ok", "raise"}}

\* d[k1][k2]...: Ok(value), or Raise for the KeyError of line 123.
RECURSIVE getitem_path(_, _)
getitem_path(d, path) ==
    IF path = <<>> THEN Ok(d)
    ELSE IF ~IsDict(d) \/ index_of_key(d.val, Head(path), 1) = 0 THEN Raise
    ELSE getitem_path(dict_getitem(d.val, Head(path)), Tail(path))

\* d[k1][k2]...[kn] = v, on a d where the path exists.
RECURSIVE setitem_path(_, _, _)
setitem_path(d, path, v) ==
    IF path = <<>> THEN v
    ELSE Dict(dict_setitem(d.val, Head(path),
                           setitem_path(dict_getitem(d.val, Head(path)), Tail(path), v)))

DsChangeInit ==
    /\ Parked
    /\ pc = "input"
    /\ result = None
    /\ local = [conn |-> FALSE, project_id |-> None, reports |-> <<>>, j |-> 1,
                successful_updates |-> 0, failed_updates |-> 0,
                instance_id |-> None, report_json |-> None, success |-> FALSE]
    /\ trace = <<>>

\* Lines 173-175; a KeyboardInterrupt at the prompt goes to the handler of
\* line 214 and on to the finally clause.
zebraffsqldschange_input ==
    /\ pc = "input"
    /\ \E answer \in {"P1", "", "KeyboardInterrupt"} :
        IF answer = "KeyboardInterrupt" THEN pc' = "finally" /\ UNCHANGED local
        ELSE /\ pc' = "get_zebra_connection"
             /\ local' = [local EXCEPT !.project_id =
                              IF strip(answer) # "" THEN Scalar(strip(answer)) ELSE None]
    /\ UNCHANGED <<data, parent_key, sep, result, trace>>

\* Lines 178-181.
zebraffsqldschange_get_zebra_connection ==
    /\ pc = "get_zebra_connection"
    /\ \E established \in BOOLEAN :
        /\ local' = [local EXCEPT !.conn = established]
        /\ pc' = IF established THEN "get_reports_from_folder" ELSE "finally"
    /\ UNCHANGED <<data, parent_key, sep, result, trace>>

\* Lines 184-187, get_reports_from_folder (lines 62-84): the reports of the
\* folder, none when the call fails.
zebraffsqldschange_get_reports_from_folder ==
    /\ pc = "get_reports_from_folder"
    /\ \E outcome \in HttpOutcomes : \E n \in 0..MaxReports :
        /\ outcome # "ok" => n = 0
        /\ trace' = Append(trace, <<"GET folder", FOLDER_ID, outcome, None>>)
        /\ local' = [local EXCEPT !.reports = [j \in 1..n |-> report_id(j)]]
        /\ pc' = IF n = 0 THEN "finally" ELSE "create_instance"
    /\ UNCHANGED <<data, parent_key, sep, result>>

\* Fault of the loop: the first failed report ends it.
Return_abort_on_failure(value) ==
    /\ local' = [local EXCEPT !.success = value]
    /\ pc' = IF value THEN "tally" ELSE "finally"

\* update_report_dbi returns value to the loop of main (line 201).
Return(value) ==
    /\ local' = [local EXCEPT !.success = value]
    /\ pc' = "tally"

\* Lines 93-101.
update_report_dbi_create_instance ==
    /\ pc = "create_instance"
    /\ \E instance_response \in Responses_of(InstanceBodies) :
        /\ trace' = Append(trace, <<"POST instances", local.reports[local.j],
                                    instance_response.outcome, instance_response.body>>)
        /\ IF ~response_ok(instance_response) THEN Return(FALSE)
           ELSE LET instance_id == dict_get(instance_response.body.val, "id", None)
                IN IF ~truthy(instance_id) THEN Return(FALSE)
                   ELSE /\ local' = [local EXCEPT !.instance_id = instance_id]
                        /\ pc' = "get_definition"
    /\ UNCHANGED <<data, parent_key, sep, result>>

\* Lines 109-126.
update_report_dbi_get_definition ==
    /\ pc = "get_definition"
    /\ \E def_response \in Responses_of(DefinitionBodies) :
        /\ trace' = Append(trace, <<"GET definition", local.reports[local.j],
                                    def_response.outcome, def_response.body>>)
        /\ IF ~response_ok(def_response) THEN Return(FALSE)
           ELSE IF getitem_path(def_response.body, dbi_path).raised THEN Return(FALSE)
           ELSE /\ local' = [local EXCEPT !.report_json =
                        setitem_path(def_response.body, dbi_path, Scalar(NEW_DBI_OBJECT_ID))]
                /\ pc' = "put_definition"
    /\ UNCHANGED <<data, parent_key, sep, result>>

\* A call whose answer is only tested for ok: it is recorded with what it
\* sends, and the function goes on to the next step or returns False.
Step_unless_raised(call, sent, next) ==
    \E outcome \in HttpOutcomes :
        /\ trace' = Append(trace, <<call, local.reports[local.j], outcome, sent>>)
        /\ IF outcome # "raise"
           THEN IF next = "return" THEN Return(TRUE) ELSE pc' = next /\ UNCHANGED local
           ELSE Return(FALSE)

Step(call, sent, next) ==
    \E outcome \in HttpOutcomes :
        /\ trace' = Append(trace, <<call, local.reports[local.j], outcome, sent>>)
        /\ IF response_ok([outcome |-> outcome, body |-> None])
           THEN IF next = "return" THEN Return(TRUE) ELSE pc' = next /\ UNCHANGED local
           ELSE Return(FALSE)

\* Lines 130-134: the PUT carries the instance header and the updated JSON.
update_report_dbi_put_definition ==
    /\ pc = "put_definition"
    /\ Step("PUT report", <<local.instance_id, local.report_json>>, "save_instance")
    /\ UNCHANGED <<data, parent_key, sep, result>>

\* Lines 138-142.
update_report_dbi_save_instance ==
    /\ pc = "save_instance"
    /\ Step("POST instances/save", <<local.instance_id>>, "final_fetch")
    /\ UNCHANGED <<data, parent_key, sep, result>>

\* Lines 146-152.
update_report_dbi_final_fetch ==
    /\ pc = "final_fetch"
    /\ Step("GET report", None, "return")
    /\ UNCHANGED <<data, parent_key, sep, result>>

\* Lines 202-205 and the loop of line 197.
zebraffsqldschange_tally ==
    /\ pc = "tally"
    /\ local' = [local EXCEPT
            !.successful_updates = IF local.success THEN @ + 1 ELSE @,
            !.failed_updates = IF local.success THEN @ ELSE @ + 1,
            !.j = @ + 1, !.instance_id = None, !.report_json = None]
    /\ pc' = IF local.j = Len(local.reports) THEN "finally" ELSE "create_instance"
    /\ UNCHANGED <<data, parent_key, sep, result, trace>>

\* Lines 218-221, close_zebra_connection (lines 47-59).
zebraffsqldschange_finally ==
    /\ pc = "finally"
    /\ \E status \in StatusOutcomes, close \in CloseOutcomes :
        trace' = IF local.conn THEN trace \o close_connection(local.conn, status, close).calls
                 ELSE trace
    /\ pc' = "done"
    /\ UNCHANGED <<data, parent_key, sep, result, local>>

DsChangeNext ==
    \/ zebraffsqldschange_input
    \/ zebraffsqldschange_get_zebra_connection
    \/ zebraffsqldschange_get_reports_from_folder
    \/ update_report_dbi_create_instance
    \/ update_report_dbi_get_definition
    \/ update_report_dbi_put_definition
    \/ update_report_dbi_save_instance
    \/ update_report_dbi_final_fetch
    \/ zebraffsqldschange_tally
    \/ zebraffsqldschange_finally

SpecDsChange == DsChangeInit /\ [][DsChangeNext]_vars

\* The HTTP calls update_report_dbi has issued for a report, in order.
CallsFor(rid) == SelectSeq(trace, LAMBDA e : Len(e) = 4 /\ e[2] = rid)
CallOrder == <<"POST instances", "GET definition", "PUT report", "POST instances/save", "GET report">>

(***************************************************************************)
(* C15: update_report_dbi issues create-instance POST, definition GET,     *)
(* definition PUT (objectId replaced by the new DBI id), instance-save     *)
(* POST and final GET in this order, each only if every earlier call       *)
(* returned ok (and the instance id and the DBI path were found), and      *)
(* returns True exactly when all five calls returned ok; otherwise it      *)
(* returns False and issues no later call.                                 *)
(***************************************************************************)
C15_FixedCallSequence ==
    \A j \in DOMAIN local.reports :
        LET calls == CallsFor(local.reports[j])
            returned == j < local.j \/ (j = local.j /\ pc = "tally")
        IN /\ Len(calls) <= Len(CallOrder)
           /\ \A k \in DOMAIN calls :
                /\ calls[k][1] = CallOrder[k]
                /\ k > 1 => calls[k - 1][3] = "ok"
                /\ k > 1 => truthy(dict_get(calls[1][4].val, "id", None))
                /\ k > 2 => ~getitem_path(calls[2][4], dbi_path).raised
                /\ k = 3 => /\ getitem_path(calls[3][4][2], dbi_path) = Ok(Scalar(NEW_DBI_OBJECT_ID))
                            /\ setitem_path(calls[3][4][2], dbi_path, Scalar("OLDDBI")) = calls[2][4]
           /\ (j = local.j /\ pc = "tally") =>
                (local.success <=> (Len(calls) = Len(CallOrder)
                                    /\ \A k \in DOMAIN calls : calls[k][3] = "ok"))
           /\ (returned /\ \E k \in DOMAIN calls : calls[k][3] # "ok") =>
                calls[Len(calls)][3] # "ok"

C15_Witness ==
    /\ pc = "tally" /\ local.success
    /\ Len(CallsFor(local.reports[local.j])) = 5
    /\ local.j = 2 /\ local.failed_updates = 1
    /\ Len(CallsFor(local.reports[1])) = 3

(***************************************************************************)
(* config/zebra_config_manager.py (ZebraConfig), ZebraCreateConnection.py  *)
(* (create_connection) and ZebraCloseConnection.py (close_connection),     *)
(* called the way the scripts call them: credentials may be validated,     *)
(* then a connection is created, then it is closed.  The configuration is  *)
(* the JSON document of the file, or Missing when there is no file.        *)
(***************************************************************************)
Missing == [kind |-> "missing", val |-> <<>>]
RaiseOf(exception) == [raised |-> TRUE, value |-> exception]

\* A key of a section that is present with value v, or absent.
opt(k, v) == IF v = "absent" THEN <<>> ELSE << <<k, Scalar(v)>> >>

ConfigOf(b, u, p, s, d) ==
    Dict(<< <<"microstrategy",
              Dict(opt("base_url", b) \o opt("username", u) \o opt("password", p)
                       \o opt("ssl_verify", s))>>,
            <<"projects", Dict(opt("default", d))>> >>)

Configs ==
    { ConfigOf(b, u, p, s, d) :
        b \in {"absent", "https://cfg"},
        u \in {"absent", "YOUR_USERNAME_HERE", "cfg_user"},
        p \in {"absent", "YOUR_PASSWORD_HERE", "cfg_pass"},
        s \in {"absent", "true"},
        d \in {"absent", "cfg_project"} }
      \cup {Missing, Dict(<<>>), Dict(<< <<"microstrategy", Scalar("1")>> >>)}

\* get_config (lines 76-97); key_path is given already split at the dots.
\* A missing key and a non-dict on the way both end in KeyError unless a
\* default other than None was passed.
get_config(config, key_path, default) ==
    LET value == getitem_path(config, key_path)
    IN IF ~value.raised THEN value
       ELSE IF default # None THEN Ok(default)
       ELSE RaiseOf("KeyError")

get_base_url(config) == get_config(config, <<"microstrategy", "base_url">>, None)

\* get_username, get_password (lines 104-122).
placeholder_check(value, placeholder) ==
    IF value.raised THEN value
    ELSE IF value.value = Scalar(placeholder) THEN RaiseOf("ValueError")
    ELSE value
get_username(config) ==
    placeholder_check(get_config(config, <<"microstrategy", "username">>, None),
                      "YOUR_USERNAME_HERE")
get_password(config) ==
    placeholder_check(get_config(config, <<"microstrategy", "password">>, None),
                      "YOUR_PASSWORD_HERE")
get_ssl_verify(config) ==
    get_config(config, <<"microstrategy", "ssl_verify">>, Scalar("false"))
get_default_project_id(config) == get_config(config, <<"projects", "default">>, None)

\* validate_credentials (lines 175-187): only ValueError is caught.
validate_credentials(config) ==
    LET username == get_username(config)
        password == get_password(config)
        caught(e) == IF e.value = "ValueError" THEN Ok(FALSE) ELSE e
    IN IF username.raised THEN caught(username)
       ELSE IF password.raised THEN caught(password)
       ELSE Ok(TRUE)

\* Connection(...) of mstrio: the keyword arguments it was called with and
\* whether the server accepted them.
ConnectOutcomes == {"ok", "IServerError", "Exception"}
Connection(kwargs, connect) ==
    [value |-> IF connect = "ok" THEN Dict(kwargs) ELSE None,
     calls |-> << <<"Connection", kwargs>> >>]

\* A parameter that is None is read from the configuration.
from_config_always(argument, configured) == configured
from_config(argument, configured) ==
    IF argument = None THEN configured ELSE Ok(argument)

\* create_connection (lines 32-98).
create_connection(a, config, connect) ==
    LET kwargs(base_url, username, password, project_id, ssl_verify) ==
            << <<"base_url", base_url>>, <<"username", username>>,
               <<"password", password>>, <<"project_id", project_id>>,
               <<"project_name", a.project_name>>, <<"ssl_verify", ssl_verify>> >>
        failed == [value |-> None, calls |-> <<>>]
    IN IF a.use_config /\ (a.base_url = None \/ a.username = None
                               \/ a.password = None \/ a.project_id = None)
       THEN IF config = Missing THEN failed
            ELSE LET base_url == from_config(a.base_url, get_base_url(config))
                     username == from_config(a.username, get_username(config))
                     password == from_config(a.password, get_password(config))
                     project_id ==
                        IF a.project_id = None /\ a.project_name = None
                        THEN get_default_project_id(config) ELSE Ok(a.project_id)
                     ssl_verify == get_ssl_verify(config)
                 IN IF base_url.raised \/ username.raised \/ password.raised
                         \/ project_id.raised \/ ssl_verify.raised
                    THEN failed
                    ELSE Connection(kwargs(base_url.value, username.value, password.value,
                                           project_id.value, ssl_verify.value), connect)
       ELSE Connection(kwargs(a.base_url, a.username, a.password, a.project_id,
                              Scalar("false")), connect)

Arguments ==
    [base_url : {None, Scalar("https://arg")}, username : {None, Scalar("arg_user")},
     password : {None, Scalar("arg_pass")}, project_id : {None, Scalar("arg_project")},
     project_name : {None, Scalar("arg_name")}, use_config : BOOLEAN]

ConnectionInit ==
    /\ Parked
    /\ pc = "idle"
    /\ result = Ok(None)
    /\ \E config \in Configs :
        local = [config |-> config,
                 a |-> [base_url |-> None, username |-> None, password |-> None,
                        project_id |-> None, project_name |-> None, use_config |-> TRUE],
                 connect |-> "ok", conn |-> None, status |-> "active", close |-> "ok"]
    /\ trace = <<>>

ZebraConfig_validate_credentials ==
    /\ pc = "idle"
    /\ local.config # Missing
    /\ result' = validate_credentials(local.config)
    /\ trace' = <<>>
    /\ pc' = "validate_credentials"
    /\ UNCHANGED <<data, parent_key, sep, local>>

ZebraCreateConnection_create_connection ==
    /\ pc \in {"idle", "validate_credentials"}
    /\ \E a \in Arguments, connect \in ConnectOutcomes :
        LET r == create_connection(a, local.config, connect)
        IN /\ local' = [local EXCEPT !.a = a, !.connect = connect]
           /\ result' = Ok(r.value)
           /\ trace' = r.calls
    /\ pc' = "create_connection"
    /\ UNCHANGED <<data, parent_key, sep>>

\* close_connection is given the connection created last, or None.
ZebraCloseConnection_close_connection ==
    /\ pc = "create_connection"
    /\ \E conn \in {None, result.value}, status \in StatusOutcomes, close \in CloseOutcomes :
        LET r == close_connection(conn # None, status, close)
        IN /\ local' = [local EXCEPT !.conn = conn, !.status = status, !.close = close]
           /\ result' = Ok(r.value)
           /\ trace' = r.calls
    /\ pc' = "close_connection"
    /\ UNCHANGED <<data, parent_key, sep>>

ConnectionNext ==
    \/ ZebraConfig_validate_credentials
    \/ ZebraCreateConnection_create_connection
    \/ ZebraCloseConnection_close_connection

SpecConnection == ConnectionInit /\ [][ConnectionNext]_vars

(***************************************************************************)
(* C16: close_connection returns True if and only if it was given a        *)
(* non-null connection and that connection was closed without error; with  *)
(* no connection, or when the status check or close raises, it returns     *)
(* False.  It never propagates an exception.                               *)
(***************************************************************************)
C16_CloseConnectionResult ==
    pc = "close_connection" =>
        /\ ~result.raised
        /\ result.value = (/\ local.conn # None
                           /\ local.status # "raise"
                           /\ local.close # "raise")
        /\ (local.conn = None) => trace = <<>>

C16_Witness ==
    /\ pc = "close_connection"
    /\ local.conn # None /\ local.status = "inactive" /\ local.close = "ok"
    /\ result = Ok(TRUE)
    /\ trace = << <<"conn.status">>, <<"conn.close">> >>

C18_ValidateCredentialsTotal ==
    pc = "validate_credentials" =>
        LET changed(name, placeholder) ==
                LET value == getitem_path(local.config, <<"microstrategy", name>>)
                IN ~value.raised /\ value.value # Scalar(placeholder)
        IN /\ ~result.raised
           /\ result.value = (/\ changed("username", "YOUR_USERNAME_HERE")
                              /\ changed("password", "YOUR_PASSWORD_HERE"))

(***************************************************************************)
(* zwcchangeprojectowner.py: change_project_owner (lines 59-105) and main  *)
(* (lines 108-185).  The line of project ids the user types is a sequence  *)
(* of characters, so that split(',') and strip() are computed.             *)
(***************************************************************************)
MaxLine == 3
Chars == {"p", "q", ",", " "}
DEFAULT_PROJECT_IDS == <<"D">>
DEFAULT_OWNER_ID == "UD"

\* str.strip() on a sequence of characters.
RECURSIVE lstrip(_)
lstrip(s) == IF s # <<>> /\ Head(s) = " " THEN lstrip(Tail(s)) ELSE s
RECURSIVE rstrip(_)
rstrip(s) ==
    IF s # <<>> /\ s[Len(s)] = " " THEN rstrip(SubSeq(s, 1, Len(s) - 1)) ELSE s
str_strip(s) == rstrip(lstrip(s))

\* s.split(','): the pieces between the commas, empty pieces included.
RECURSIVE str_split(_, _)
str_split(s, piece) ==
    IF s = <<>> THEN <<piece>>
    ELSE IF Head(s) = "," THEN <<piece>> \o str_split(Tail(s), <<>>)
    ELSE str_split(Tail(s), Append(piece, Head(s)))

\* Line 130: [pid.strip() for pid in project_ids_input.split(',') if pid.strip()].
parse_project_ids(project_ids_input) ==
    LET pieces == str_split(project_ids_input, <<>>)
        stripped == [k \in DOMAIN pieces |-> str_strip(pieces[k])]
    IN SelectSeq(stripped, LAMBDA pid : pid # <<>>)

\* Line 91: project.owner['id'] == new_owner_id.
owner_is_anyone(owner_id, new_owner_id) == TRUE
owner_is(owner_id, new_owner_id) == owner_id = new_owner_id

OwnerIds == {"U0", "U1", DEFAULT_OWNER_ID}

ChangeOwnerInit ==
    /\ Parked
    /\ pc = "get_zebra_connection"
    /\ result = None
    /\ local = [conn |-> FALSE, project_ids |-> <<>>, idx |-> 1, new_owner_id |-> "",
                success_count |-> 0, failed_count |-> 0, results |-> <<>>,
                owner |-> "", success |-> FALSE]
    /\ trace = <<>>

\* Lines 117-120.
zwcchangeprojectowner_get_zebra_connection ==
    /\ pc = "get_zebra_connection"
    /\ \E established \in BOOLEAN :
        /\ local' = [local EXCEPT !.conn = established]
        /\ pc' = IF established THEN "input_project_ids" ELSE "done"
    /\ UNCHANGED <<data, parent_key, sep, result, trace>>

\* Lines 124-137: the line typed, the default for an empty line, the early
\* return (through close_zebra_connection) when no id is left.
zwcchangeprojectowner_input_project_ids ==
    /\ pc = "input_project_ids"
    /\ \/ pc' = "finally" /\ UNCHANGED local
       \/ \E n \in 0..MaxLine : \E line \in [1..n -> Chars] :
            LET project_ids_input ==
                    IF str_strip(line) = <<>> THEN DEFAULT_PROJECT_IDS ELSE str_strip(line)
                project_ids == parse_project_ids(project_ids_input)
            IN /\ local' = [local EXCEPT !.project_ids = project_ids]
               /\ pc' = IF project_ids = <<>> THEN "early_close" ELSE "input_new_owner_id"
    /\ UNCHANGED <<data, parent_key, sep, result, trace>>

\* close_zebra_connection (lines 49-56) over close_connection.
zwcchangeprojectowner_close_zebra_connection(tr, status, close) ==
    tr \o close_connection(local.conn, status, close).calls

\* Lines 132-135.
zwcchangeprojectowner_early_close ==
    /\ pc = "early_close"
    /\ \E status \in StatusOutcomes, close \in CloseOutcomes :
        trace' = zwcchangeprojectowner_close_zebra_connection(trace, status, close)
    /\ pc' = "finally"
    /\ UNCHANGED <<data, parent_key, sep, result, local>>

\* Lines 140-143.
zwcchangeprojectowner_input_new_owner_id ==
    /\ pc = "input_new_owner_id"
    /\ \E answer \in {"", " ", "U1"} :
        local' = [local EXCEPT !.new_owner_id =
                     IF strip(answer) = "" THEN DEFAULT_OWNER_ID ELSE strip(answer)]
    /\ pc' = "Project"
    /\ UNCHANGED <<data, parent_key, sep, result, trace>>

\* change_project_owner returns value to the loop of main (line 155).
ReturnOwner(value) ==
    /\ local' = [local EXCEPT !.success = value]
    /\ pc' = "tally"

\* Lines 78-80: Project(...) and the print of its owner, which fails when
\* the project has no owner record.
change_project_owner_Project ==
    /\ pc = "Project"
    /\ \E outcome \in {"ok", "raise"}, owner \in OwnerIds \cup {"None"} :
        /\ trace' = Append(trace, <<"Project", local.project_ids[local.idx], outcome>>)
        /\ IF outcome = "raise" \/ owner = "None" THEN ReturnOwner(FALSE)
           ELSE local' = [local EXCEPT !.owner = owner] /\ pc' = "User"
    /\ UNCHANGED <<data, parent_key, sep, result>>

\* Lines 84-85.
change_project_owner_User ==
    /\ pc = "User"
    /\ \E outcome \in {"ok", "raise"} :
        /\ trace' = Append(trace, <<"User", local.new_owner_id, outcome>>)
        /\ IF outcome = "raise" THEN ReturnOwner(FALSE)
           ELSE pc' = "alter" /\ UNCHANGED local
    /\ UNCHANGED <<data, parent_key, sep, result>>

\* Lines 88-89.
change_project_owner_alter ==
    /\ pc = "alter"
    /\ \E outcome \in {"ok", "raise"} :
        /\ trace' = Append(trace, <<"alter", local.project_ids[local.idx], outcome,
                                    local.new_owner_id>>)
        /\ IF outcome = "raise" THEN ReturnOwner(FALSE)
           ELSE pc' = "fetch" /\ UNCHANGED local
    /\ UNCHANGED <<data, parent_key, sep, result>>

\* Lines 92-99: the owner the server reports after the change.
change_project_owner_fetch ==
    /\ pc = "fetch"
    /\ \E outcome \in {"ok", "raise"}, owner \in {local.owner, local.new_owner_id} :
        /\ trace' = Append(trace, <<"fetch", local.project_ids[local.idx], outcome,
                                    IF outcome = "ok" THEN owner ELSE "">>)
        /\ IF outcome = "raise" THEN ReturnOwner(FALSE)
           ELSE /\ local' = [local EXCEPT !.owner = owner,
                                          !.success = owner_is(owner, local.new_owner_id)]
                /\ pc' = "tally"
    /\ UNCHANGED <<data, parent_key, sep, result>>

\* Lines 150-162.
zwcchangeprojectowner_tally ==
    /\ pc = "tally"
    /\ local' = [local EXCEPT
            !.success_count = IF local.success THEN @ + 1 ELSE @,
            !.failed_count = IF local.success THEN @ ELSE @ + 1,
            !.results = Append(@, <<local.success, local.project_ids[local.idx]>>),
            !.idx = @ + 1, !.owner = ""]
    /\ pc' = IF local.idx = Len(local.project_ids) THEN "finally" ELSE "Project"
    /\ UNCHANGED <<data, parent_key, sep, result, trace>>

\* Lines 175-185.
zwcchangeprojectowner_finally ==
    /\ pc = "finally"
    /\ \E status \in StatusOutcomes, close \in CloseOutcomes :
        trace' = zwcchangeprojectowner_close_zebra_connection(trace, status, close)
    /\ pc' = "done"
    /\ UNCHANGED <<data, parent_key, sep, result, local>>

ChangeOwnerNext ==
    \/ zwcchangeprojectowner_get_zebra_connection
    \/ zwcchangeprojectowner_input_project_ids
    \/ zwcchangeprojectowner_early_close
    \/ zwcchangeprojectowner_input_new_owner_id
    \/ change_project_owner_Project
    \/ change_project_owner_User
    \/ change_project_owner_alter
    \/ change_project_owner_fetch
    \/ zwcchangeprojectowner_tally
    \/ zwcchangeprojectowner_finally

SpecChangeOwner == ChangeOwnerInit /\ [][ChangeOwnerNext]_vars

(***************************************************************************)
(* C19: change_project_owner returns True only if, after the alter call    *)
(* and a re-fetch of the project, the project's owner id equals            *)
(* new_owner_id; when fetching the project or the user, the alter call or  *)
(* the re-fetch fails, or the re-fetched owner differs, it returns False.  *)
(* It does not raise.                                                      *)
(***************************************************************************)
C19_TrueOnlyIfOwnerVerified ==
    pc = "tally" =>
        LET project_id == local.project_ids[local.idx]
            n == Len(trace)
            verified ==
                /\ n >= 4
                /\ trace[n - 3] = <<"Project", project_id, "ok">>
                /\ trace[n - 2] = <<"User", local.new_owner_id, "ok">>
                /\ trace[n - 1] = <<"alter", project_id, "ok", local.new_owner_id>>
                /\ trace[n] = <<"fetch", project_id, "ok", local.new_owner_id>>
        IN /\ local.success \in BOOLEAN
           /\ local.success <=> verified

C19_Witness ==
    /\ pc = "tally" /\ local.idx = 2
    /\ local.success /\ local.owner = "U1" /\ local.new_owner_id = "U1"
    /\ local.results = << <<FALSE, <<"p">> >> >>
    /\ trace[Len(trace) - 1][3] = "ok"

(***************************************************************************)
(* zwclistobjectlineage_v2.py, process_attribute_forms (lines 163-286):    *)
(* the rows of the attribute sheet, one per form, expression and table.    *)
(* The attribute detail document is a JSON value as above.                 *)
(***************************************************************************)
MaxForms == 2
Str(s) == Scalar(s)

\* d.get(k, default) on a JSON object.
get(d, k, default) == dict_get(d.val, k, default)

\* form_category.upper() on the categories of the domain.
upper(s) == IF s = "desc" THEN "DESC" ELSE IF s = "id" THEN "ID" ELSE s

\* form_id in report_displays, the dict built at lines 170-171 from the ids
\* of the display entries.
display_ids(displays, which) ==
    LET entries == get(displays, which, List(<<>>)).val
    IN {get(entries[k], "id", None) : k \in DOMAIN entries}

\* Lines 225-240, 243-258, 262-277: one row of the sheet.
attribute_row(object_id, object_name, category, form, expr_text, table_name, is_lookup, attribute_lookup_table, is_report_display, is_browse_display) ==
    LET data_type_info == get(form, "dataType", Dict(<<>>))
    IN << <<"OBJECT_ID", Str(object_id)>>, <<"ATTRIBUTE_NAME", Str(object_name)>>,
          <<"CATEGORY", Str(category)>>, <<"FORM_NAME", get(form, "name", Str(""))>>,
          <<"EXPRESSION", expr_text>>, <<"LOGICAL_TABLE", table_name>>,
          <<"IS_LOOKUP", Str(is_lookup)>>, <<"ATTRIBUTE_LOOKUP", attribute_lookup_table>>,
          <<"Report Display", Str(is_report_display)>>,
          <<"Browse Display", Str(is_browse_display)>>,
          <<"DISPLAY_FORMAT", get(form, "displayFormat", Str(""))>>,
          <<"DATA_TYPE", get(data_type_info, "type", Str(""))>>,
          <<"PRECISION", get(data_type_info, "precision", Str(""))>>,
          <<"SCALE", get(data_type_info, "scale", Str(""))>> >>

\* Line 200: whether the loop skips the form.
skip_form(form) == truthy(get(form, "isFormGroup", Scalar("false")))

\* Lines 178-277: the rows of one form.
rows_of_form(form, obj_details, object_id, object_name) ==
    LET attribute_lookup_table ==
            get(get(obj_details, "attributeLookupTable", Dict(<<>>)), "name", Str(""))
        displays == get(obj_details, "displays", Dict(<<>>))
        form_id == get(form, "id", None)
        form_category == get(form, "category", Str("")).val
        form_lookup_table == get(get(form, "lookupTable", Dict(<<>>)), "name", Str(""))
        is_report_display ==
            IF form_id \in display_ids(displays, "reportDisplays") THEN "Y" ELSE "N"
        is_browse_display ==
            IF form_id \in display_ids(displays, "browseDisplays") THEN "Y" ELSE "N"
        standardized_category == IF upper(form_category) = "ID" THEN "ID" ELSE "DESC"
        row(expr_text, table_name, is_lookup) ==
            attribute_row(object_id, object_name, standardized_category, form, expr_text,
                          table_name, is_lookup, attribute_lookup_table,
                          is_report_display, is_browse_display)
        expressions == get(form, "expressions", List(<<>>))
        rows_of_expression(expr) ==
            LET expr_text == get(get(expr, "expression", Dict(<<>>)), "text", Str(""))
                tables == get(expr, "tables", List(<<>>))
            IN IF truthy(tables)
               THEN [k \in DOMAIN tables.val |->
                        LET table_name == get(tables.val[k], "name", Str(""))
                        IN row(expr_text, table_name,
                               IF table_name = form_lookup_table THEN "Y" ELSE "N")]
               ELSE <<row(expr_text, Str(""), "N")>>
    IN IF skip_form(form) THEN <<>>
       ELSE IF truthy(expressions)
       THEN Concat([k \in DOMAIN expressions.val |-> rows_of_expression(expressions.val[k])])
       ELSE <<row(Str(""), Str(""), "N")>>

process_attribute_forms(obj_details, object_id, object_name) ==
    LET forms == get(obj_details, "forms", List(<<>>))
    IN IF ~truthy(forms)
       THEN << << <<"OBJECT_ID", Str(object_id)>>, <<"ATTRIBUTE_NAME", Str(object_name)>>,
                  <<"error", Str("No forms found")>> >> >>
       ELSE Concat([k \in DOMAIN forms.val |->
                        rows_of_form(forms.val[k], obj_details, object_id, object_name)])

\* The forms of the input domain.  The k-th form of an attribute has id fk
\* and name formk; a form group carries isFormGroup and its child forms.
ExpressionLists ==
    { List(<<>>),
      List(<< Dict(<< <<"expression", Dict(<< <<"text", Str("e")>> >>)>>,
                      <<"tables", List(<<>>)>> >>) >>),
      List(<< Dict(<< <<"expression", Dict(<< <<"text", Str("e")>> >>)>>,
                      <<"tables", List(<< Dict(<< <<"name", Str("T1")>> >>),
                                          Dict(<< <<"name", Str("T2")>> >>) >>)>> >>) >>) }
ChildForms(k) ==
    List(<< Dict(<< <<"id", Str("f" \o decimal(k) \o "a")>>,
                    <<"name", Str("form" \o decimal(k) \o "a")>> >>),
            Dict(<< <<"id", Str("f" \o decimal(k) \o "b")>>,
                    <<"name", Str("form" \o decimal(k) \o "b")>> >>) >>)
Form(k, category, is_form_group, expressions) ==
    Dict(<< <<"id", Str("f" \o decimal(k))>>, <<"name", Str("form" \o decimal(k))>>,
            <<"category", Str(category)>>,
            <<"lookupTable", Dict(<< <<"name", Str("T1")>> >>)>>,
            <<"dataType", Dict(<< <<"type", Str("integer")>> >>)>>,
            <<"expressions", expressions>> >>
         \o (IF is_form_group
             THEN << <<"isFormGroup", Scalar("true")>>, <<"childForms", ChildForms(k)>> >>
             ELSE <<>>))
FormsAt(k) ==
    { Form(k, category, is_form_group, expressions) :
        category \in {"ID", "desc", "KEY"}, is_form_group \in BOOLEAN,
        expressions \in ExpressionLists }
AttributeDetails(forms) ==
    Dict(<< <<"attributeLookupTable", Dict(<< <<"name", Str("T1")>> >>)>>,
            <<"displays", Dict(<< <<"reportDisplays",
                                    List(<< Dict(<< <<"id", Str("f1")>>,
                                                    <<"name", Str("form1")>> >>) >>)>> >>)>>,
            <<"forms", List(forms)>> >>)

AttributeFormsInit ==
    /\ Parked
    /\ pc = "call"
    /\ result = Ok(<<>>)
    /\ \E n \in 0..MaxForms : \E forms \in [1..n -> UNION {FormsAt(k) : k \in 1..MaxForms}] :
        /\ \A k \in 1..n : forms[k] \in FormsAt(k)
        /\ local = [obj_details |-> AttributeDetails(forms),
                    object_id |-> "A1", object_name |-> "Attr"]
    /\ trace = <<>>

process_attribute_forms_call ==
    /\ pc = "call"
    /\ result' = Ok(process_attribute_forms(local.obj_details, local.object_id,
                                            local.object_name))
    /\ pc' = "return"
    /\ UNCHANGED <<data, parent_key, sep, local, trace>>

AttributeFormsNext == process_attribute_forms_call

SpecAttributeForms == AttributeFormsInit /\ [][AttributeFormsNext]_vars

(***************************************************************************)
(* C20: in the attribute export form groups are expanded to their child    *)
(* forms: for every form with isFormGroup true, process_attribute_forms    *)
(* emits rows for its child forms.                                         *)
(***************************************************************************)
C20_FormGroupsExpanded ==
    pc = "return" =>
        LET forms == get(local.obj_details, "forms", List(<<>>)).val
            rows == result.value
        IN \A k \in DOMAIN forms :
              truthy(get(forms[k], "isFormGroup", Scalar("false"))) =>
                 LET children == get(forms[k], "childForms", List(<<>>)).val
                 IN \A c \in DOMAIN children :
                       \E r \in DOMAIN rows :
                          dict_get(rows[r], "FORM_NAME", None) = get(children[c], "name", None)

(***************************************************************************)
(* zwclistobjectlineage_v2.py, flatten_json (lines 119-144): the second    *)
(* copy of the flattener, translated from its own text, with the loop over *)
(* a list value of a dict and the loop over a top-level list kept apart as *)
(* the source has them.                                                    *)
(***************************************************************************)
RECURSIVE v2_flatten_json(_, _, _)
RECURSIVE v2_value_list_loop(_, _, _, _)
RECURSIVE v2_data_list_loop(_, _, _, _)
RECURSIVE v2_dict_loop(_, _, _, _)

\* Line 124: new_key = f"{parent_key}{sep}{k}" if parent_key else k
v2_new_key_no_sep(pk, s, k) == IF pk = "" THEN k ELSE pk \o k
v2_new_key(pk, s, k) == IF pk = "" THEN k ELSE pk \o s \o k

\* Lines 128-132: for i, item in enumerate(v), under new_key.
v2_value_list_loop(v, nk, s, n) ==
    IF n > Len(v) THEN Ok(<<>>)
    ELSE LET item == v[n]
             key == nk \o s \o format_int(n - 1)
             rest == v2_value_list_loop(v, nk, s, n + 1)
         IN IF IsDict(item)
            THEN LET r == v2_flatten_json(item, key, s)
                 IN IF r.raised THEN Raise ELSE extend(Ok(r.value), rest)
            ELSE extend(Ok(<< <<key, item>> >>), rest)

\* Lines 136-140: for i, item in enumerate(data), under parent_key.
v2_data_list_loop(d, pk, s, n) ==
    IF n > Len(d) THEN Ok(<<>>)
    ELSE LET item == d[n]
             key == pk \o s \o format_int(n - 1)
             rest == v2_data_list_loop(d, pk, s, n + 1)
         IN IF IsDict(item)
            THEN LET r == v2_flatten_json(item, key, s)
                 IN IF r.raised THEN Raise ELSE extend(Ok(r.value), rest)
            ELSE extend(Ok(<< <<key, item>> >>), rest)

\* Lines 123-134: for k, v in data.items().
v2_dict_loop(entries, pk, s, n) ==
    IF n > Len(entries) THEN Ok(<<>>)
    ELSE LET k == entries[n][1]
             v == entries[n][2]
             nk == v2_new_key(pk, s, k)
             rest == v2_dict_loop(entries, pk, s, n + 1)
         IN IF IsDict(v)
            THEN LET r == v2_flatten_json(v, nk, s)
                 IN IF r.raised THEN Raise ELSE extend(Ok(r.value), rest)
            ELSE IF IsList(v) THEN extend(v2_value_list_loop(v.val, nk, s, 1), rest)
            ELSE extend(Ok(<< <<nk, v>> >>), rest)

v2_flatten_json(d, pk, s) ==
    LET items == IF IsDict(d) THEN v2_dict_loop(d.val, pk, s, 1)
                 ELSE IF IsList(d) THEN v2_data_list_loop(d.val, pk, s, 1)
                 ELSE Ok(<< <<pk, d>> >>)
    IN IF items.raised THEN Raise ELSE Ok(dict(items.value))

\* Both copies are called on the same input.
CallCopies ==
    /\ pc = "call"
    /\ result' = flatten_json(data, parent_key, sep)
    /\ local' = [v2_result |-> v2_flatten_json(data, parent_key, sep)]
    /\ pc' = "return"
    /\ UNCHANGED <<data, parent_key, sep, trace>>

CopiesNext == CallCopies

SpecCopies == Init /\ [][CopiesNext]_vars

(***************************************************************************)
(* C21: the two copies of flatten_json are observationally equivalent: for *)
(* every JSON value, prefix and separator they return the same mapping,    *)
(* inputs with key collisions and nested arrays included.                  *)
(***************************************************************************)
C21_CopiesEquivalent ==
    pc = "return" =>
        /\ local.v2_result.raised = result.raised
        /\ local.v2_result.value = result.value

C21_Witness ==
    /\ pc = "return"
    /\ data = Dict(<< <<"a", Dict(<< <<"b", Scalar("1")>> >>)>>, <<"a_b", Scalar("2")>> >>)
    /\ sep = "_" /\ parent_key = ""
    /\ local.v2_result = Ok(<< <<"a_b", Scalar("2")>> >>)
    /\ result = local.v2_result

(***************************************************************************)
(* zebrachangeownership.py: change_project_ownership (lines 94-131) and    *)
(* main (lines 134-216).  What the user types at the project-number prompt *)
(* is a sequence of characters, so that int() is computed.                 *)
(***************************************************************************)
MaxProjects == 2
NumberChars == {"0", "1", "2", "3", "-", "x"}
MaxNumberLen == 2

\* The value of a sequence of decimal digits.
DigitValue(c) == CHOOSE v \in 0..9 : Digit[v + 1] = c
RECURSIVE digits_value(_)
digits_value(s) ==
    IF s = <<>> THEN 0
    ELSE 10 * digits_value(SubSeq(s, 1, Len(s) - 1)) + DigitValue(s[Len(s)])
IsDigits(s) == s # <<>> /\ \A k \in DOMAIN s : \E v \in 0..9 : Digit[v + 1] = s[k]

\* int(s): the number, or ValueError.
int(s) ==
    IF IsDigits(s) THEN Ok(digits_value(s))
    ELSE IF s # <<>> /\ Head(s) = "-" /\ IsDigits(Tail(s)) THEN Ok(0 - digits_value(Tail(s)))
    ELSE RaiseOf("ValueError")

\* Lines 158-159: the test on the entered number, less one.
valid_choice_no_lower_bound(choice, n) == ~(choice >= n)
valid_choice(choice, n) == ~(choice < 0 \/ choice >= n)

\* projects[choice]: Python counts a negative index from the end.
list_getitem(n, choice) ==
    IF choice >= 0 /\ choice < n THEN Ok(choice + 1)
    ELSE IF choice < 0 /\ choice >= 0 - n THEN Ok(n + choice + 1)
    ELSE RaiseOf("IndexError")

\* str.lower() on the answers of the confirmation prompt.
lower(s) == IF s = "Y" THEN "y" ELSE IF s = "N" THEN "n" ELSE s

project_id_of(k) == "P" \o decimal(k)

OwnershipInit ==
    /\ Parked
    /\ pc = "get_zebra_connection"
    /\ result = None
    /\ local = [conn |-> FALSE, projects |-> 0, typed |-> <<>>, choice |-> 0,
                project_id |-> "", new_owner_id |-> "", confirm |-> "",
                success |-> FALSE]
    /\ trace = <<>>

\* Lines 142-146.
zebrachangeownership_get_zebra_connection ==
    /\ pc = "get_zebra_connection"
    /\ \E established \in BOOLEAN :
        /\ local' = [local EXCEPT !.conn = established]
        /\ pc' = IF established THEN "get_all_projects" ELSE "finally"
    /\ UNCHANGED <<data, parent_key, sep, result, trace>>

\* Lines 149-153, get_all_projects (lines 55-91): the number of projects
\* listed, none when the call fails.
zebrachangeownership_get_all_projects ==
    /\ pc = "get_all_projects"
    /\ \E outcome \in {"200", "500", "raise"} : \E n \in 0..MaxProjects :
        /\ outcome # "200" => n = 0
        /\ trace' = Append(trace, <<"GET", "/api/projects", outcome>>)
        /\ local' = [local EXCEPT !.projects = n]
        /\ pc' = IF n = 0 THEN "finally" ELSE "input_choice"
    /\ UNCHANGED <<data, parent_key, sep, result>>

\* Lines 155-168: the project number; a KeyboardInterrupt, a ValueError of
\* int() and a number out of range all end main.
zebrachangeownership_input_choice ==
    /\ pc = "input_choice"
    /\ \/ pc' = "finally" /\ UNCHANGED local
       \/ \E len \in 0..MaxNumberLen : \E typed \in [1..len -> NumberChars] :
            LET number == int(typed)
                choice == number.value - 1
            IN IF number.raised \/ ~valid_choice(choice, local.projects)
                    \/ list_getitem(local.projects, choice).raised
               THEN pc' = "finally" /\ local' = [local EXCEPT !.typed = typed]
               ELSE /\ local' = [local EXCEPT !.typed = typed, !.choice = choice,
                        !.project_id =
                            project_id_of(list_getitem(local.projects, choice).value)]
                    /\ pc' = "input_new_owner_id"
    /\ UNCHANGED <<data, parent_key, sep, result, trace>>

\* Lines 179-182.
zebrachangeownership_input_new_owner_id ==
    /\ pc = "input_new_owner_id"
    /\ \E answer \in {"", " ", "U1"} :
        /\ local' = [local EXCEPT !.new_owner_id = strip(answer)]
        /\ pc' = IF strip(answer) = "" THEN "finally" ELSE "input_confirm"
    /\ UNCHANGED <<data, parent_key, sep, result, trace>>

\* Lines 190-193.
zebrachangeownership_input_confirm ==
    /\ pc = "input_confirm"
    /\ \E answer \in {"y", "Y", "n", "", "yes"} :
        /\ local' = [local EXCEPT !.confirm = answer]
        /\ pc' = IF lower(answer) # "y" THEN "finally" ELSE "get_project"
    /\ UNCHANGED <<data, parent_key, sep, result, trace>>

\* Lines 99-109: GET of the current project; the body is a JSON object, or
\* something project_data['ownerId'] = ... cannot be applied to.
change_project_ownership_get ==
    /\ pc = "get_project"
    /\ \E outcome \in {"200", "200 not an object", "404", "raise"} :
        /\ trace' = Append(trace, <<"GET", local.project_id, outcome>>)
        /\ IF outcome = "200" THEN pc' = "patch_project" /\ UNCHANGED local
           ELSE pc' = "summary" /\ local' = [local EXCEPT !.success = FALSE]
    /\ UNCHANGED <<data, parent_key, sep, result>>

\* Lines 111-127.
change_project_ownership_patch ==
    /\ pc = "patch_project"
    /\ \E outcome \in {"200", "500", "raise"} :
        /\ trace' = Append(trace, <<"PATCH", local.project_id, outcome, local.new_owner_id>>)
        /\ local' = [local EXCEPT !.success = (outcome = "200")]
    /\ pc' = "summary"
    /\ UNCHANGED <<data, parent_key, sep, result>>

\* Lines 200-207.
zebrachangeownership_summary ==
    /\ pc = "summary"
    /\ pc' = "finally"
    /\ UNCHANGED <<data, parent_key, sep, result, local, trace>>

\* Lines 213-216, close_zebra_connection (lines 45-52).
zebrachangeownership_finally ==
    /\ pc = "finally"
    /\ \E status \in StatusOutcomes, close \in CloseOutcomes :
        trace' = IF local.conn THEN trace \o close_connection(local.conn, status, close).calls
                 ELSE trace
    /\ pc' = "done"
    /\ UNCHANGED <<data, parent_key, sep, result, local>>

OwnershipNext ==
    \/ zebrachangeownership_get_zebra_connection
    \/ zebrachangeownership_get_all_projects
    \/ zebrachangeownership_input_choice
    \/ zebrachangeownership_input_new_owner_id
    \/ zebrachangeownership_input_confirm
    \/ change_project_ownership_get
    \/ change_project_ownership_patch
    \/ zebrachangeownership_summary
    \/ zebrachangeownership_finally

SpecOwnership == OwnershipInit /\ [][OwnershipNext]_vars

(***************************************************************************)
(* C22: in zebrachangeownership.main the ownership-changing PATCH is sent  *)
(* only after the user selected a project number within 1..len(projects),  *)
(* entered a non-empty new owner id and answered y to the confirmation,    *)
(* and only after the GET of that project returned 200; on any other input *)
(* no PATCH is issued.                                                     *)
(***************************************************************************)
C22_PatchOnlyAfterConfirmation ==
    \A e \in DOMAIN trace :
        trace[e][1] = "PATCH" =>
            /\ ~int(local.typed).raised
            /\ int(local.typed).value \in 1..local.projects
            /\ local.new_owner_id # ""
            /\ local.confirm \in {"y", "Y"}
            /\ e > 1 /\ trace[e - 1] = <<"GET", local.project_id, "200">>
            /\ trace[e][2] = project_id_of(int(local.typed).value)
            /\ trace[e][4] = local.new_owner_id
            /\ \A f \in DOMAIN trace : trace[f][1] = "PATCH" => f = e

C22_Witness ==
    /\ pc = "done"
    /\ local.typed = <<"0", "2">> /\ local.confirm = "Y" /\ local.success
    /\ \E e \in DOMAIN trace : trace[e] = <<"PATCH", "P2", "200", "U1">>

(***************************************************************************)
(* The two bulk scripts side by side: a run is a run of                    *)
(* zebraffsqldschange.main or a run of zwcchangeprojectowner.main.         *)
(***************************************************************************)
IsDsChangeRun == "reports" \in DOMAIN local
IsChangeOwnerRun == "project_ids" \in DOMAIN local

BulkInit == DsChangeInit \/ ChangeOwnerInit

BulkNext ==
    \/ IsDsChangeRun /\ DsChangeNext
    \/ IsChangeOwnerRun /\ ChangeOwnerNext

SpecBulk == BulkInit /\ [][BulkNext]_vars

\* The calls of a kind that the trace holds.
CountCalls(name) == Len(SelectSeq(trace, LAMBDA e : e[1] = name))

(***************************************************************************)
(* C23: in the bulk loops of zebraffsqldschange.main and                   *)
(* zwcchangeprojectowner.main a failure on one item never stops the        *)
(* processing of the remaining items, and when the loop ends the success   *)
(* count plus the failure count equals the number of items.                *)
(***************************************************************************)
C23_BulkLoopCounts ==
    /\ IsDsChangeRun =>
         /\ local.successful_updates + local.failed_updates = local.j - 1
         /\ (pc \in {"finally", "done"} /\ local.reports # <<>>) =>
               /\ local.successful_updates + local.failed_updates = Len(local.reports)
               /\ \A j \in DOMAIN local.reports : CallsFor(local.reports[j]) # <<>>
    /\ IsChangeOwnerRun =>
         /\ local.success_count + local.failed_count = local.idx - 1
         /\ (pc \in {"finally", "done"} /\ local.project_ids # <<>>) =>
               /\ local.success_count + local.failed_count = Len(local.project_ids)
               /\ Len(local.results) = Len(local.project_ids)
               /\ CountCalls("Project") = Len(local.project_ids)

C23_Witness ==
    /\ IsChangeOwnerRun /\ pc = "done"
    /\ local.project_ids = << <<"p">>, <<"q">> >>
    /\ local.results = << <<FALSE, <<"p">> >>, <<TRUE, <<"q">> >> >>
    /\ local.success_count = 1 /\ local.failed_count = 1

(***************************************************************************)
(* zebra_report_instances.py: display_instances_summary (lines 164-200)    *)
(* and process_all_reports_in_folder (lines 203-243).                      *)
(***************************************************************************)
Number(n) == [kind |-> "int", val |-> n]

\* What fetch_report_instances can return (lines 128-161): None for a
\* failed fetch, or the JSON of the answer.
Instance(k) == Dict(<< <<"id", Str("i" \o decimal(k))>>, <<"status", Str("ready")>> >>)
InstancesData ==
    { None, Dict(<<>>), Dict(<< <<"status", Str("1")>> >>),
      Dict(<< <<"instances", None>> >>),
      Dict(<< <<"instances", List(<<>>)>> >>),
      Dict(<< <<"instances", List(<<Str("1")>>)>> >>),
      Dict(<< <<"instances", List(<<Instance(1)>>)>> >>),
      Dict(<< <<"instances", List(<<Instance(1), Instance(2)>>)>> >>) }

\* display_instances_summary: the value returned.  An instances list that
\* is empty leaves both inner branches and reaches the end of the function,
\* which returns None; len(None) and .get on a non-dict raise and are
\* caught by the handler of line 198.
display_instances_summary(instances_data) ==
    IF ~truthy(instances_data) THEN Number(0)
    ELSE IF index_of_key(instances_data.val, "instances", 1) = 0 THEN Number(0)
    ELSE LET instances == dict_getitem(instances_data.val, "instances")
         IN IF ~IsList(instances) THEN Number(0)
            ELSE IF truthy(instances)
            THEN IF \A k \in DOMAIN instances.val : IsDict(instances.val[k])
                 THEN Number(Len(instances.val))
                 ELSE Number(0)
            ELSE None

ReportInstancesInit ==
    /\ Parked
    /\ pc = "get_reports_from_folder"
    /\ result = None
    /\ local = [reports |-> <<>>, j |-> 1, instances_data |-> None,
                instance_count |-> Number(0), total_instances |-> 0,
                processed_reports |-> 0]
    /\ trace = <<>>

\* Lines 207-214.
process_all_reports_get_reports_from_folder ==
    /\ pc = "get_reports_from_folder"
    /\ \E outcome \in HttpOutcomes : \E n \in 0..MaxReports :
        /\ outcome # "ok" => n = 0
        /\ trace' = Append(trace, <<"GET folder", FOLDER_ID, outcome>>)
        /\ local' = [local EXCEPT !.reports = [j \in 1..n |-> report_id(j)]]
        /\ pc' = IF n = 0 THEN "done" ELSE "fetch_report_instances"
    /\ UNCHANGED <<data, parent_key, sep, result>>

\* Lines 221-228.
process_all_reports_fetch_report_instances ==
    /\ pc = "fetch_report_instances"
    /\ \E instances_data \in InstancesData :
        local' = [local EXCEPT !.instances_data = instances_data]
    /\ trace' = Append(trace, <<"POST instances", local.reports[local.j]>>)
    /\ pc' = "display_instances_summary"
    /\ UNCHANGED <<data, parent_key, sep, result>>

\* Line 231.
process_all_reports_display_instances_summary ==
    /\ pc = "display_instances_summary"
    /\ local' = [local EXCEPT !.instance_count =
                     display_instances_summary(local.instances_data)]
    /\ pc' = "add"
    /\ UNCHANGED <<data, parent_key, sep, result, trace>>

\* Lines 232-233 and the loop of line 221; int += None is a TypeError,
\* which the handler of line 242 catches: the function ends there.
process_all_reports_add ==
    /\ pc = "add"
    /\ IF local.instance_count.kind # "int"
       THEN pc' = "done" /\ UNCHANGED local
       ELSE /\ local' = [local EXCEPT
                    !.total_instances = @ + local.instance_count.val,
                    !.processed_reports = @ + 1, !.j = @ + 1]
            /\ pc' = IF local.j = Len(local.reports) THEN "summary"
                     ELSE "fetch_report_instances"
    /\ UNCHANGED <<data, parent_key, sep, result, trace>>

\* Lines 236-240.
process_all_reports_summary ==
    /\ pc = "summary"
    /\ trace' = Append(trace, <<"FINAL SUMMARY", local.processed_reports,
                                local.total_instances>>)
    /\ pc' = "done"
    /\ UNCHANGED <<data, parent_key, sep, result, local>>

ReportInstancesNext ==
    \/ process_all_reports_get_reports_from_folder
    \/ process_all_reports_fetch_report_instances
    \/ process_all_reports_display_instances_summary
    \/ process_all_reports_add
    \/ process_all_reports_summary

SpecReportInstances == ReportInstancesInit /\ [][ReportInstancesNext]_vars

(***************************************************************************)
(* C24: process_all_reports_in_folder processes every report of the folder *)
(* listing and reaches the final summary with processed_reports equal to   *)
(* the number of reports, whatever each instances answer holds (failed     *)
(* fetch, no instances field, instances empty, instances non-empty);       *)
(* display_instances_summary returns a non-negative integer in each case.  *)
(***************************************************************************)
C24_EveryReportProcessed ==
    /\ pc = "add" =>
         /\ local.instance_count.kind = "int"
         /\ local.instance_count.val >= 0
    /\ (pc = "done" /\ local.reports # <<>>) =>
         /\ local.processed_reports = Len(local.reports)
         /\ trace[Len(trace)] = <<"FINAL SUMMARY", Len(local.reports), local.total_instances>>

(***************************************************************************)
(* C25: in a run of main, close is invoked at most once on the established *)
(* connection; the early return of zwcchangeprojectowner.main taken when   *)
(* no valid project id was entered does not close it a second time.        *)
(***************************************************************************)
C25_CloseAtMostOnce ==
    Len(SelectSeq(trace, LAMBDA e : e = <<"conn.close">>)) <= 1

(***************************************************************************)
(* The depth of the flatten_json calls of zebralistobjectlineage.py (lines *)
(* 95-120): a call is at depth one more than the call that made it.  The   *)
(* function calls itself for a dict value of a dict (line 102), for a dict *)
(* element of a list value of a dict (line 106) and for a dict element of  *)
(* a top-level list (line 114), and nowhere else.                          *)
(***************************************************************************)
Max(S) == IF S = {} THEN 0 ELSE CHOOSE m \in S : \A n \in S : n <= m

RECURSIVE call_depth(_)
call_depth(d) ==
    LET of_list(elems) ==
            Max({IF IsDict(elems[i]) THEN call_depth(elems[i]) ELSE 0 : i \in DOMAIN elems})
        of_value(v) ==
            IF IsDict(v) THEN call_depth(v)
            ELSE IF IsList(v) THEN of_list(v.val)
            ELSE 0
    IN 1 + (IF IsDict(d) THEN Max({of_value(d.val[i][2]) : i \in DOMAIN d.val})
            ELSE IF IsList(d) THEN of_list(d.val)
            ELSE 0)

\* The nesting depth of a JSON value: a scalar has none, an array or an
\* object is one level deeper than its deepest child.
RECURSIVE nesting_depth(_)
nesting_depth(d) ==
    IF IsScalar(d) THEN 0
    ELSE IF IsDict(d) THEN 1 + Max({nesting_depth(d.val[i][2]) : i \in DOMAIN d.val})
    ELSE 1 + Max({nesting_depth(d.val[i]) : i \in DOMAIN d.val})

(***************************************************************************)
(* C26: the depth of nested flatten_json calls reached while flattening a  *)
(* value equals the nesting depth of the value, arrays and objects both    *)
(* counting as one level.  It is stated for arrays and objects; a scalar   *)
(* has no nesting and takes the one call that was made.                    *)
(***************************************************************************)
C26_CallDepthIsNestingDepth ==
    ~IsScalar(data) => call_depth(data) = nesting_depth(data)

====
